---- MODULE Spec2Model ----
(***************************************************************************)
(* Model of package phimap: the open-addressing hash table PhiMap          *)
(* (src/phimap.go) and the copy-on-write cache TypeMap (src/typemap.go).   *)
(*                                                                         *)
(* SpecPhi   drives one PhiMap[int] through Set and Delete.                *)
(* SpecZero  adds Set and Delete of the reserved key 0.                    *)
(* SpecCopy  drives a PhiMap and its Copy through Set and Delete.          *)
(* SpecTM    drives one TypeMap[int] through concurrent SetByUintptr,      *)
(*           GetByUintptr and calibrate calls.                             *)
(* SpecRetry drives it through SetByUintptr calls with failing builders.   *)
(* SpecFair  is SpecTM under fair scheduling of the calibration.           *)
(* SpecPack  drives one PhiMap through Set of new keys and Delete(0).      *)
(* SpecMix   computes the probe starts of interfaceMap for int64 keys.      *)
(***************************************************************************)
EXTENDS Integers, Naturals, Sequences, FiniteSets, TLC

(***************************************************************************)
(* Bounds of the model.                                                    *)
(***************************************************************************)
\* number of keys 1, 3, 5, ... the bulk loader inserts (TestPhiMapSimple)
MaxFill == 39
\* values stored are 1..MaxVal
MaxVal == 2
\* SpecTM: the callers start at most MaxSets SetByUintptr calls, MaxSync
\* calibrate(true) calls and MaxGets GetByUintptr calls of their own choice
MaxSets == 2
MaxSync == 1
MaxGets == 1
\* SpecTM: those calls start while slowHit <= MaxWarm or >= slowHitThreshold
MaxWarm == 2
\* SpecTM: slowHit is counted up to slowHitThreshold + MaxOver
MaxOver == 2
\* SpecTM: the number of concurrent callers
NProcs == 2
\* SpecZero: the number of Set(0, .) and Delete(0) calls
MaxZero == 2
\* SpecMix: the capacities are 2^1 .. 2^MaxCapBits (a slice of 24-byte
\* entries in an address space of 2^48 bytes has fewer than 2^44 elements)
MaxCapBits == 43
\* SpecPack: the number of keys 1, 3, 5, ... inserted, and of Delete(0) calls
MaxPack == 64
MaxNeg == 26

(***************************************************************************)
(* Program constants.                                                      *)
(***************************************************************************)
\* INT_PHI = 0x9E3779B9, as its two 16-bit halves
PHI_HI == 40503
PHI_LO == 31161
FREE_KEY == 0
\* the nil pointer
NoRef == 0
initSize == 32
\* fillFactor = 0.6 as the fraction FillNum / FillDen
FillNum == 3
FillDen == 5
\* the zero value of T (T = int)
Zero == 0
\* a nil interface value in an Entry.V slot that was never written
NilV == -1

W16 == 65536
slowHitThreshold == 128

(***************************************************************************)
(* Bit arithmetic on naturals below 2^16.                                  *)
(***************************************************************************)
RECURSIVE BitXor(_, _)
BitXor(a, b) ==
    IF a = 0 THEN b
    ELSE IF b = 0 THEN a
    ELSE ((a + b) % 2) + 2 * BitXor(a \div 2, b \div 2)

RECURSIVE BitAnd(_, _)
BitAnd(a, b) ==
    IF a = 0 \/ b = 0 THEN 0
    ELSE ((a % 2) * (b % 2)) + 2 * BitAnd(a \div 2, b \div 2)

RECURSIVE BitOr(_, _)
BitOr(a, b) ==
    IF a = 0 THEN b
    ELSE IF b = 0 THEN a
    ELSE (IF (a % 2) + (b % 2) > 0 THEN 1 ELSE 0) + 2 * BitOr(a \div 2, b \div 2)

\* (a * b) mod 2^16 for a, b < 2^16, without leaving 31 bits
MulMod16(a, b) ==
    (((a % 256) * b) + ((((a \div 256) * b) % 256) * 256)) % W16

(***************************************************************************)
(* phiMix: h := x * INT_PHI (mod 2^64); return h ^ (h >> 16).              *)
(* Every use masks the result with m.mask, and every mask of the model is  *)
(* below 2^16, so the operator yields the low 16 bits of the result: bits  *)
(* 0..15 of h xor bits 16..31 of h.                                        *)
(***************************************************************************)
phiMix(x) ==
    LET xl == x % W16
        xh == (x \div W16) % W16
        p0 == xl * PHI_LO
        h0 == p0 % W16
        h1 == ((p0 \div W16) + MulMod16(xl, PHI_HI) + MulMod16(xh, PHI_LO)) % W16
    IN  BitXor(h0, h1)

nextPowerOfTwo(x) ==
    IF x = 0 THEN 1
    ELSE LET x0 == x - 1
             x1 == BitOr(x0, x0 \div 2)
             x2 == BitOr(x1, x1 \div 4)
             x3 == BitOr(x2, x2 \div 16)
             x4 == BitOr(x3, x3 \div 256)
             x5 == BitOr(x4, x4 \div 65536)
         IN  x5 + 1

\* ceil(exp / fill), then the next power of two, at least 2
arraySize(exp) ==
    LET c == (exp * FillDen + FillNum - 1) \div FillNum
        s == nextPowerOfTwo(c)
    IN  IF s < 2 THEN 2 ELSE s

\* floor(capacity * fillFactor)
calcThreshold(capacity) == (capacity * FillNum) \div FillDen

(***************************************************************************)
(* PhiMap: data is the backing array, indexed 0 .. len-1.                  *)
(***************************************************************************)
EmptyEntry == [K |-> FREE_KEY, V |-> NilV]

MakeData(capacity) == [i \in 0..(capacity - 1) |-> EmptyEntry]

ArrLen(data) == Cardinality(DOMAIN data)

NewPhiMap ==
    LET capacity == arraySize(initSize)
    IN  [data      |-> MakeData(capacity),
         threshold |-> calcThreshold(capacity),
         size      |-> 0,
         mask      |-> capacity - 1]

Size(m) == m.size

RECURSIVE GetLoop(_, _, _)
GetLoop(m, key, ptr) ==
    LET p == BitAnd(ptr, m.mask)
        k == m.data[p].K
    IN  IF k = key THEN m.data[p].V
        ELSE IF k = 0 THEN Zero
        ELSE GetLoop(m, key, p + 1)

Get(m, key) == GetLoop(m, key, phiMix(key))

RECURSIVE HasLoop(_, _, _)
HasLoop(m, key, ptr) ==
    LET p == BitAnd(ptr, m.mask)
        k == m.data[p].K
    IN  IF k = key THEN TRUE
        ELSE IF k = 0 THEN FALSE
        ELSE HasLoop(m, key, p + 1)

Has(m, key) == HasLoop(m, key, phiMix(key))

\* the insertion loop of rehash for one entry e
RECURSIVE RehashInsert(_, _, _)
RehashInsert(m, e, ptr) ==
    LET p == BitAnd(ptr, m.mask)
        k == m.data[p].K
    IN  IF k = FREE_KEY
        THEN [m EXCEPT !.data[p] = e, !.size = m.size + 1]
        ELSE RehashInsert(m, e, p + 1)

\* the COPY loop of rehash over the indices lo..hi of the old array, in
\* increasing order (the range is halved, and the left half is evaluated
\* first by the test on left.size, to keep the evaluation shallow)
RECURSIVE RehashCopy(_, _, _, _)
RehashCopy(m, data, lo, hi) ==
    IF lo > hi THEN m
    ELSE IF lo = hi
    THEN LET e == data[lo]
         IN  IF e.K = FREE_KEY THEN m
             ELSE RehashInsert(m, e, phiMix(e.K))
    ELSE LET mid == (lo + hi) \div 2
             left == RehashCopy(m, data, lo, mid)
         IN  IF left.size < 0 THEN left
             ELSE RehashCopy(left, data, mid + 1, hi)

\* variant: the entries keep their old index in the doubled array
rehashSameIndex(m) ==
    LET newCapacity == ArrLen(m.data) * 2
    IN  [data      |-> [i \in 0..(newCapacity - 1) |->
                           IF i < ArrLen(m.data) THEN m.data[i] ELSE EmptyEntry],
         threshold |-> calcThreshold(newCapacity),
         size      |-> Cardinality({i \in DOMAIN m.data : m.data[i].K # FREE_KEY}),
         mask      |-> newCapacity - 1]

rehash(m) ==
    LET newCapacity == ArrLen(m.data) * 2
        fresh == [data      |-> MakeData(newCapacity),
                  threshold |-> calcThreshold(newCapacity),
                  size      |-> 0,
                  mask      |-> newCapacity - 1]
    IN  RehashCopy(fresh, m.data, 0, ArrLen(m.data) - 1)

RECURSIVE SetLoop(_, _, _, _)
SetLoop(m, key, val, ptr) ==
    LET p == BitAnd(ptr, m.mask)
        k == m.data[p].K
    IN  IF k = FREE_KEY
        THEN LET w == [m EXCEPT !.data[p] = [K |-> key, V |-> val]]
             IN  IF m.size >= m.threshold
                 THEN rehash(w)
                 ELSE [w EXCEPT !.size = m.size + 1]
        ELSE IF k = key
        THEN [m EXCEPT !.data[p].V = val]
        ELSE SetLoop(m, key, val, p + 1)

\* variant: a present key keeps its old value
SetKeepOld(m, key, val) ==
    IF Has(m, key) THEN m ELSE SetLoop(m, key, val, phiMix(key))

\* variant: the threshold is tested before the key is looked up
SetGrowFirst(m, key, val) ==
    IF m.size >= m.threshold
    THEN SetLoop(rehash(m), key, val, phiMix(key))
    ELSE SetLoop(m, key, val, phiMix(key))

\* variant: a new key that brings size up to threshold already grows the table
SetGrowEarly(m, key, val) ==
    LET s == SetLoop(m, key, val, phiMix(key))
    IN  IF ~Has(m, key) /\ m.size + 1 = m.threshold THEN rehash(s) ELSE s

\* variant: the table grows only once size is above threshold
SetGrowLate(m, key, val) ==
    IF ~Has(m, key) /\ m.size = m.threshold
    THEN [SetLoop([m EXCEPT !.size = m.size - 1], key, val, phiMix(key))
             EXCEPT !.size = m.size + 1]
    ELSE SetLoop(m, key, val, phiMix(key))

Set(m, key, val) == SetLoop(m, key, val, phiMix(key))

\* the inner scan of shiftKeys: the position the scan stops at
RECURSIVE ShiftScan(_, _, _)
ShiftScan(m, last, pos0) ==
    LET pos == BitAnd(pos0, m.mask)
        k == m.data[pos].K
        slot == BitAnd(phiMix(k), m.mask)
    IN  IF k = FREE_KEY THEN [free |-> TRUE, pos |-> pos]
        ELSE IF last <= pos
        THEN IF last >= slot \/ slot > pos
             THEN [free |-> FALSE, pos |-> pos]
             ELSE ShiftScan(m, last, pos + 1)
        ELSE IF last >= slot /\ slot > pos
             THEN [free |-> FALSE, pos |-> pos]
             ELSE ShiftScan(m, last, pos + 1)

\* variant: the scan applies the test of the case last <= pos also after it
\* has wrapped past the end of the array
RECURSIVE ShiftScanNoWrap(_, _, _)
ShiftScanNoWrap(m, last, pos0) ==
    LET pos == BitAnd(pos0, m.mask)
        k == m.data[pos].K
        slot == BitAnd(phiMix(k), m.mask)
    IN  IF k = FREE_KEY THEN [free |-> TRUE, pos |-> pos]
        ELSE IF last >= slot \/ slot > pos
             THEN [free |-> FALSE, pos |-> pos]
             ELSE ShiftScanNoWrap(m, last, pos + 1)

RECURSIVE shiftKeysNoWrap(_, _)
shiftKeysNoWrap(m, pos) ==
    LET last == pos
        r == ShiftScanNoWrap(m, last, last + 1)
    IN  IF r.free
        THEN [m EXCEPT !.data[last] = [K |-> FREE_KEY, V |-> Zero]]
        ELSE shiftKeysNoWrap([m EXCEPT !.data[last] = m.data[r.pos]], r.pos)

\* variant: the slot is cleared and nothing is moved back
shiftKeysTombstone(m, pos) ==
    [m EXCEPT !.data[pos] = [K |-> FREE_KEY, V |-> Zero]]

RECURSIVE shiftKeys(_, _)
shiftKeys(m, pos) ==
    LET last == pos
        r == ShiftScan(m, last, last + 1)
    IN  IF r.free
        THEN [m EXCEPT !.data[last] = [K |-> FREE_KEY, V |-> Zero]]
        ELSE shiftKeys([m EXCEPT !.data[last] = m.data[r.pos]], r.pos)

RECURSIVE DeleteLoop(_, _, _)
DeleteLoop(m, key, ptr) ==
    LET p == BitAnd(ptr, m.mask)
        k == m.data[p].K
    IN  IF k = key
        THEN LET s == shiftKeys(m, p)
             IN  [s EXCEPT !.size = m.size - 1]
        ELSE IF k = FREE_KEY THEN m
        ELSE DeleteLoop(m, key, p + 1)

\* variant: size is not decremented
DeleteKeepSize(m, key) ==
    [DeleteLoop(m, key, phiMix(key)) EXCEPT !.size = m.size]

\* variant: only the probe start is examined
DeleteNoProbe(m, key) ==
    LET p == BitAnd(phiMix(key), m.mask)
    IN  IF m.data[p].K = key
        THEN [shiftKeys(m, p) EXCEPT !.size = m.size - 1]
        ELSE m

Delete(m, key) == DeleteLoop(m, key, phiMix(key))

\* the range loop of Copy over the indices lo..hi of the source array, in
\* increasing order (the range is halved, and the left half is evaluated
\* first by the test on left.size, to keep the evaluation shallow)
RECURSIVE CopyLoop(_, _, _, _)
CopyLoop(newMap, data, lo, hi) ==
    IF lo > hi THEN newMap
    ELSE IF lo = hi
    THEN LET e == data[lo]
         IN  IF e.K = FREE_KEY THEN newMap
             ELSE Set(newMap, e.K, e.V)
    ELSE LET mid == (lo + hi) \div 2
             left == CopyLoop(newMap, data, lo, mid)
         IN  IF left.size < 0 THEN left
             ELSE CopyLoop(left, data, mid + 1, hi)

Copy(m) ==
    LET cap0 == ArrLen(m.data)
        capacity == IF m.size >= m.threshold THEN cap0 * 2 ELSE cap0
        newMap == [data      |-> MakeData(capacity),
                   threshold |-> m.threshold,
                   size      |-> 0,
                   mask      |-> capacity - 1]
    IN  CopyLoop(newMap, m.data, 0, ArrLen(m.data) - 1)

\* Keys(): the keys of the non-free slots, in slot order (the name Keys is
\* taken by the key universe of SpecPhi)
RECURSIVE KeysFrom(_, _, _)
KeysFrom(data, lo, hi) ==
    IF lo > hi THEN <<>>
    ELSE IF lo = hi
    THEN IF data[lo].K = FREE_KEY THEN <<>> ELSE <<data[lo].K>>
    ELSE LET mid == (lo + hi) \div 2
         IN  KeysFrom(data, lo, mid) \o KeysFrom(data, mid + 1, hi)

PhiKeys(m) == KeysFrom(m.data, 0, ArrLen(m.data) - 1)

\* Items(): the entries of the non-free slots, in slot order
RECURSIVE ItemsFrom(_, _, _)
ItemsFrom(data, lo, hi) ==
    IF lo > hi THEN <<>>
    ELSE IF lo = hi
    THEN IF data[lo].K = FREE_KEY THEN <<>> ELSE <<data[lo]>>
    ELSE LET mid == (lo + hi) \div 2
         IN  ItemsFrom(data, lo, mid) \o ItemsFrom(data, mid + 1, hi)

\* a loop that starts at slot 1
ItemsSkipFirst(m) == ItemsFrom(m.data, 1, ArrLen(m.data) - 1)

Items(m) == ItemsFrom(m.data, 0, ArrLen(m.data) - 1)

(***************************************************************************)
(* State.                                                                  *)
(***************************************************************************)
VARIABLES
    tbl,      \* SpecPhi: the PhiMap under test
    nfill,    \* SpecPhi: how many bulk keys the loader has inserted
    shadow,   \* SpecPhi: history, the value of the last Set of each key not
              \* followed by a Delete of it, NilV when there is none
    lastOp,   \* SpecPhi: history, what the last call did: "insert" (Set of
              \* an absent key), "grow" (the same, with a rehash), "update"
              \* (Set of a present key), "delete" (Delete of a present key),
              \* "miss" (Delete of an absent key), "set0" (Set of key 0),
              \* "delete0" (Delete of key 0); in SpecCopy "fill", "copy",
              \* "set-src", "delete-src", "set-copy", "delete-copy"
    nzero,    \* SpecZero: how many calls with key 0 were made
    cref,     \* SpecCopy: the reference of the table Copy returned, NoRef
              \* before the call
    mix,      \* SpecMix: an int64 key, a capacity and the probe starts computed
              \* for them
    heap,     \* SpecTM: the allocated PhiMaps, by reference
    mptr,     \* SpecTM: TypeMap.m, the reference of the fast snapshot
    lock,     \* SpecTM: TypeMap.lock
    m2,       \* SpecTM: TypeMap.m2, key -> reference of a dirtyEntry
    ents,     \* SpecTM: the live dirtyEntry objects, by reference
    slowHit,  \* SpecTM: TypeMap.slowHit
    pc,       \* SpecTM: the position of each caller
    loc,      \* SpecTM: the locals of each caller
    cal,      \* SpecTM: the calibration goroutine each caller spawned
    succ,     \* SpecTM: history, key -> the value of the first builder that
              \* succeeded for it, NilV when none has
    published,\* SpecTM: history, references that were stored in TypeMap.m
    returned, \* SpecTM: history, <<key, value>> pairs SetByUintptr returned
    ops       \* SpecTM: how many calls of each kind the callers have started
              \* of their own choice, and the history hits (see Since)

phiVars == <<tbl, nfill, shadow, lastOp, nzero, cref, mix>>
tmVars == <<heap, mptr, lock, m2, ents, slowHit, pc, loc, cal, succ, published,
            returned, ops>>
vars == <<tbl, nfill, shadow, lastOp, nzero, cref, mix, heap, mptr, lock, m2, ents, slowHit, pc,
          loc, cal, succ, published, returned, ops>>

(***************************************************************************)
(* Inputs of SpecPhi.  The bulk loader inserts the odd keys 1, 3, 5, ...   *)
(* with Set(i, i), as TestPhiMapSimple does.  HotKeys are set and deleted  *)
(* freely.  At capacity 64 the probe starts of 132, 66, 268 are 62, 63, 63 *)
(* (bulk key 33 also starts at 63), so their cluster wraps around the end  *)
(* of the array; at capacity 128 they are 126, 127, 63 (bulk key 33: 127). *)
(***************************************************************************)
HotKeys == {66, 268, 132}
Vals == 1..MaxVal
FillKey(n) == 2 * n - 1
FillKeys == {FillKey(n) : n \in 1..MaxFill}
Keys == HotKeys \cup FillKeys
\* keys that are never set: probe starts 14, 61, 62 at capacity 64
ColdKeys == {166, 70, 334}

\* the TypeMap state SpecPhi leaves alone
TMIdle ==
    /\ heap = <<>>
    /\ mptr = 0
    /\ lock = 0
    /\ m2 = <<>>
    /\ ents = <<>>
    /\ slowHit = 0
    /\ pc = <<>>
    /\ loc = <<>>
    /\ cal = <<>>
    /\ succ = <<>>
    /\ published = {}
    /\ returned = {}
    /\ ops = <<>>

PhiInit ==
    /\ tbl = NewPhiMap
    /\ nfill = 0
    /\ shadow = [k \in Keys |-> NilV]
    /\ lastOp = "init"
    /\ nzero = 0
    /\ mix = <<>>
    /\ cref = NoRef
    /\ TMIdle

PhiSet(key, val) ==
    /\ tbl' = Set(tbl, key, val)
    /\ shadow' = [shadow EXCEPT ![key] = val]
    /\ lastOp' = IF shadow[key] # NilV THEN "update"
                 ELSE IF ArrLen(tbl'.data) # ArrLen(tbl.data) THEN "grow"
                 ELSE "insert"

PhiDelete(key) ==
    /\ tbl' = Delete(tbl, key)
    /\ shadow' = [shadow EXCEPT ![key] = NilV]
    /\ lastOp' = IF shadow[key] # NilV THEN "delete" ELSE "miss"

SetHot ==
    \E k \in HotKeys, v \in Vals :
        PhiSet(k, v) /\ UNCHANGED <<nfill, nzero, cref, mix>> /\ UNCHANGED tmVars

DeleteHot ==
    \E k \in HotKeys :
        PhiDelete(k) /\ UNCHANGED <<nfill, nzero, cref, mix>> /\ UNCHANGED tmVars

SetBulk ==
    /\ nfill < MaxFill
    /\ PhiSet(FillKey(nfill + 1), FillKey(nfill + 1))
    /\ nfill' = nfill + 1
    /\ UNCHANGED <<nzero, cref, mix>>
    /\ UNCHANGED tmVars

PhiNext == SetHot \/ DeleteHot \/ SetBulk

SpecPhi == PhiInit /\ [][PhiNext]_vars

(***************************************************************************)
(* Observations used by the properties of SpecPhi.                         *)
(***************************************************************************)
\* every key a property looks up
Probed == Keys \cup ColdKeys
\* the keys stored in the slots of a table
StoredKeys(m) == {m.data[i].K : i \in DOMAIN m.data} \ {FREE_KEY}
\* the number of slots holding a non-zero key
LiveSlots(m) == Cardinality({i \in DOMAIN m.data : m.data[i].K # FREE_KEY})
\* the keys of the universe that the history says are present
Present == {k \in Keys : shadow[k] # NilV}

(***************************************************************************)
(* C1: after any sequence of Set and Delete calls on non-zero keys,        *)
(* rehashes included, Get(k) returns the value of the most recent          *)
(* Set(k, v) when no Delete(k) was executed after that Set.                *)
(***************************************************************************)
C1_RoundTrip ==
    \A k \in Keys : shadow[k] # NilV => Get(tbl, k) = shadow[k]

\* after a rehash, a key whose value was replaced sits behind a colliding key
C1_Witness ==
    /\ ArrLen(tbl.data) = 128
    /\ lastOp = "update"
    /\ shadow[66] = 2
    /\ tbl.data[127].K = 33
    /\ tbl.data[0].K = 66
    /\ Get(tbl, 66) = 2

(***************************************************************************)
(* C2: after Delete(k) of a present key k, every other key that was        *)
(* present is still returned by Get with its unchanged value, and is still *)
(* reported by Has.                                                        *)
(***************************************************************************)
C2_DeletePreservesOthers ==
    [][\A k \in Keys :
          (lastOp' = "delete" /\ shadow[k] # NilV /\ shadow'[k] = NilV)
              => \A j \in Keys \ {k} :
                    Has(tbl, j) => (Has(tbl', j) /\ Get(tbl', j) = Get(tbl, j))
      ]_vars

\* a Delete has just moved 268 (probe start 63) back from slot 0 across the
\* end of the array, behind 132 (probe start 62)
C2_Witness ==
    /\ lastOp = "delete"
    /\ ArrLen(tbl.data) = 64
    /\ tbl.data[62].K = 132
    /\ tbl.data[63].K = 268
    /\ tbl.data[0] = [K |-> FREE_KEY, V |-> Zero]
    /\ Get(tbl, 268) = shadow[268]

(***************************************************************************)
(* C6: a Set of a new key that triggers rehash preserves the logical       *)
(* contents: every key present before is returned with its value, the new  *)
(* key is returned with its value, and no other key is present.            *)
(***************************************************************************)
C6_RehashPreserves ==
    [][\A k \in Keys :
          (lastOp' = "grow" /\ shadow[k] = NilV /\ shadow'[k] # NilV)
              => /\ \A j \in Probed \ {k} :
                       /\ Has(tbl', j) = Has(tbl, j)
                       /\ Get(tbl', j) = Get(tbl, j)
                 /\ Has(tbl', k)
                 /\ Get(tbl', k) = shadow'[k]
                 /\ ArrLen(tbl'.data) = 2 * ArrLen(tbl.data)
                 /\ StoredKeys(tbl') = StoredKeys(tbl) \cup {k}
                 /\ LiveSlots(tbl') = LiveSlots(tbl) + 1
      ]_vars

\* the table has just grown while holding hot keys with replaced values
C6_Witness ==
    /\ lastOp = "grow"
    /\ ArrLen(tbl.data) = 128
    /\ tbl.size = 39
    /\ shadow[132] = 2
    /\ Get(tbl, 132) = 2
    /\ Get(tbl, 33) = 33

(***************************************************************************)
(* C7: Size() equals the number of distinct keys present, which equals the *)
(* number of slots holding a non-zero key.                                 *)
(***************************************************************************)
C7_SizeAccounting ==
    /\ Size(tbl) = Cardinality(Present)
    /\ Size(tbl) = LiveSlots(tbl)

\* N = 41 distinct inserts (a rehash among them), then M = 2 deletes, the
\* last one of an absent key
C7_Witness ==
    /\ lastOp = "miss"
    /\ ArrLen(tbl.data) = 128
    /\ nfill = 39
    /\ Present = FillKeys \cup {132}
    /\ Size(tbl) = 40

(***************************************************************************)
(* C8: for every non-zero key that was never Set, or whose last operation  *)
(* was Delete, Get returns the zero value and Has returns false.           *)
(***************************************************************************)
C8_Absence ==
    \A k \in Probed :
        (k \in ColdKeys \/ shadow[k] = NilV)
            => (Get(tbl, k) = Zero /\ ~Has(tbl, k))

\* 66 was deleted out of the wrapping cluster 62, 63, 0 it shared with 132
\* and 268, which are still there
C8_Witness ==
    /\ lastOp = "delete"
    /\ shadow[66] = NilV
    /\ tbl.data[62].K = 132
    /\ tbl.data[63].K = 268
    /\ tbl.data[0].V = Zero
    /\ ~Has(tbl, 66)
    /\ Get(tbl, 334) = Zero

(***************************************************************************)
(* C9: Set(k, b) on a key that is already present replaces only k's value: *)
(* Get(k) returns b, Size() and the capacity are unchanged (no rehash even *)
(* when size equals threshold), every other key keeps its slot and value.  *)
(***************************************************************************)
C9_OverwriteFrame ==
    [][\A k \in HotKeys :
          (lastOp' = "update" /\ shadow[k] # NilV /\ shadow'[k] # NilV
                /\ tbl' = Set(tbl, k, shadow'[k]))
              => /\ Get(tbl', k) = shadow'[k]
                 /\ Size(tbl') = Size(tbl)
                 /\ ArrLen(tbl'.data) = ArrLen(tbl.data)
                 /\ tbl'.mask = tbl.mask
                 /\ tbl'.threshold = tbl.threshold
                 /\ \A i \in DOMAIN tbl.data :
                       /\ tbl'.data[i].K = tbl.data[i].K
                       /\ tbl.data[i].K # k => tbl'.data[i] = tbl.data[i]
      ]_vars

\* a value was replaced while size = threshold, and the table did not grow
C9_Witness ==
    /\ lastOp = "update"
    /\ ArrLen(tbl.data) = 64
    /\ Size(tbl) = tbl.threshold
    /\ shadow[268] = 2
    /\ Get(tbl, 268) = 2

(***************************************************************************)
(* TypeMap (src/typemap.go).  PhiMaps and dirtyEntry objects are reached   *)
(* through references: heap[r] is the PhiMap behind reference r, ents[e]   *)
(* the dirtyEntry behind reference e.  NoRef is the nil pointer.           *)
(***************************************************************************)
Procs == 1..NProcs
\* the uintptr keys the callers use: both have probe start 63 at capacity 64
TKeys == {66, 268}
EmptyFn == [x \in {} |-> NoRef]

\* what a builder f can return: (v, nil) or (zero, err)
BuilderResults ==
    {[val |-> v, err |-> FALSE] : v \in Vals} \cup {[val |-> Zero, err |-> TRUE]}

\* &dirtyEntry{}: once not yet run, err nil, val empty.  calls (how many
\* times a builder was invoked for the entry, counted up to 2) and failed
\* (whether one of them returned an error) are history.
NewEntry ==
    [once |-> "new", err |-> FALSE, val |-> NilV, calls |-> 0, failed |-> FALSE]

\* the locals of a caller that is in no call.  pre (the <<key, value>>
\* pairs SetByUintptr had returned when calibrate(true) was called), gone
\* (the keys deleted from m2 since then) and late (the call began after a
\* builder of its key had succeeded) are history.
IdleLoc ==
    [op |-> "none", key |-> 0, ent |-> NoRef, called |-> FALSE, val |-> NilV,
     err |-> FALSE, wait |-> FALSE, snap |-> NoRef, pre |-> {}, gone |-> {},
     late |-> FALSE]

\* no calibration goroutine.  seen (the <<key, value>> pairs the Range
\* callback found with a value and absent from imap) is history.
IdleCal ==
    [pc |-> "none", imap |-> NoRef, newMap |-> NoRef, delKeys |-> <<>>,
     visited |-> {}, must |-> {}, seen |-> {}]

\* a reference for a new dirtyEntry
FreeEnt(es) ==
    CHOOSE e \in 1..(Cardinality(DOMAIN es) + 1) :
        /\ e \notin DOMAIN es
        /\ \A d \in 1..(e - 1) : d \in DOMAIN es

\* garbage collection: the entries still referenced by m2 or by a caller
Collect(es, slow, locals) ==
    LET live == {slow[k] : k \in DOMAIN slow} \cup {locals[p].ent : p \in Procs}
    IN  [e \in (DOMAIN es) \cap live |-> es[e]]

Bump(n) == IF n < 2 THEN n + 1 ELSE 2

\* NewTypeMap
TMInit ==
    /\ heap = <<NewPhiMap>>
    /\ mptr = 1
    /\ lock = 0
    /\ m2 = EmptyFn
    /\ ents = EmptyFn
    /\ slowHit = 0
    /\ pc = [p \in Procs |-> "idle"]
    /\ loc = [p \in Procs |-> IdleLoc]
    /\ cal = [p \in Procs |-> IdleCal]
    /\ succ = [k \in TKeys |-> NilV]
    /\ published = {1}
    /\ returned = {}
    /\ ops = [set |-> 0, cal |-> 0, get |-> 0, hits |-> NilV]
    /\ tbl = NewPhiMap
    /\ nfill = 0
    /\ shadow = [k \in Keys |-> NilV]
    /\ lastOp = "init"
    /\ nzero = 0
    /\ mix = <<>>
    /\ cref = NoRef

(***************************************************************************)
(* The workload.  The callers start, of their own choice, at most MaxSets  *)
(* SetByUintptr calls (any caller, any key), and caller 2 at most MaxSync  *)
(* calibrate(true) calls and MaxGets GetByUintptr calls; they start them   *)
(* while slowHit <= MaxWarm or slowHit >= slowHitThreshold.  Besides       *)
(* these, caller 1 repeats SetByUintptr of the smallest key whose          *)
(* slow-store entry holds a value, each time starting when no call and no  *)
(* calibration is in progress: these repeated calls are what drives        *)
(* slowHit up to the threshold.                                            *)
(***************************************************************************)
Quiescent == \A q \in Procs : pc[q] = "idle" /\ cal[q].pc = "none"
HitKey(k) == k \in DOMAIN m2 /\ ents[m2[k]].val # NilV
Tester == 2
MayStart == slowHit <= MaxWarm \/ slowHit >= slowHitThreshold
Repeat(p, k) ==
    /\ Quiescent
    /\ p = 1
    /\ HitKey(k)
    /\ \A j \in TKeys : HitKey(j) => k <= j

(***************************************************************************)
(* SetByUintptr(key, f), one action per shared-memory step.                *)
(***************************************************************************)
\* x, _ := m.m2.LoadOrStore(uint64(key), &dirtyEntry{})
LoadOrStore(p, k) ==
    /\ pc[p] = "idle"
    /\ \/ MayStart /\ ops.set < MaxSets /\ ops' = [ops EXCEPT !.set = ops.set + 1]
       \/ Repeat(p, k) /\ ops' = ops
    /\ LET e == IF k \in DOMAIN m2 THEN m2[k] ELSE FreeEnt(ents)
       IN  /\ m2' = [j \in (DOMAIN m2) \cup {k} |-> IF j = k THEN e ELSE m2[j]]
           /\ ents' = [d \in (DOMAIN ents) \cup {e} |->
                          IF d \in DOMAIN ents THEN ents[d] ELSE NewEntry]
           /\ loc' = [loc EXCEPT ![p] =
                         [IdleLoc EXCEPT !.op = "set", !.key = k, !.ent = e,
                                         !.late = (succ[k] # NilV)]]
    /\ pc' = [pc EXCEPT ![p] = "once"]
    /\ UNCHANGED <<heap, mptr, lock, slowHit, cal, succ, published, returned>>
    /\ UNCHANGED phiVars

\* sync.Once: Do runs its function only if no Do of this Once has begun one
OnceEveryCaller(d) == d.once # "running"

OnceFirst(d) == d.once = "new"

\* the first successful builder result of key k, kept for the whole run
Built(k, r) ==
    IF r.err \/ succ[k] # NilV THEN succ ELSE [succ EXCEPT ![k] = r.val]

\* entry.once.Do: the first caller runs the function, a caller that finds
\* it running waits, a caller that finds it done goes on
OnceDo(p) ==
    /\ pc[p] = "once"
    /\ LET e == loc[p].ent
       IN  \/ /\ OnceFirst(ents[e])
              /\ ents' = [ents EXCEPT ![e].once = "running",
                                       ![e].calls = Bump(ents[e].calls)]
              /\ loc' = [loc EXCEPT ![p].called = TRUE]
              /\ pc' = [pc EXCEPT ![p] = "build"]
           \/ /\ ents[e].once = "done"
              /\ pc' = [pc EXCEPT ![p] = "load"]
              /\ UNCHANGED <<ents, loc>>
    /\ UNCHANGED <<heap, mptr, lock, m2, slowHit, cal, succ, published, returned, ops>>
    /\ UNCHANGED phiVars

\* if err == nil { entry.val.Store(val) }: the entry's val after a builder
\* returned r, old being its val before
StoreAlways(old, r) == r.val

StoreVal(old, r) == IF r.err THEN old ELSE r.val

\* inside once.Do: val, err := f(); entry.err = err; entry.val.Store(val)
BuildDone(p) ==
    /\ pc[p] = "build"
    /\ \E r \in BuilderResults :
          LET e == loc[p].ent
          IN  /\ ents' = [ents EXCEPT
                            ![e].once = "done",
                            ![e].err = r.err,
                            ![e].val = StoreVal(ents[e].val, r),
                            ![e].failed = ents[e].failed \/ r.err]
              /\ succ' = Built(loc[p].key, r)
    /\ pc' = [pc EXCEPT ![p] = "load"]
    /\ UNCHANGED <<heap, mptr, lock, m2, slowHit, loc, cal, published, returned, ops>>
    /\ UNCHANGED phiVars

\* val := entry.val.Load(), and the branch on val == nil
LoadVal(p) ==
    /\ pc[p] = "load"
    /\ LET e == loc[p].ent
           v == ents[e].val
       IN  IF v = NilV
           THEN IF loc[p].called
                THEN /\ loc' = [loc EXCEPT ![p].val = Zero, ![p].err = ents[e].err]
                     /\ pc' = [pc EXCEPT ![p] = "ret"]
                     /\ UNCHANGED ents
                ELSE /\ ents' = [ents EXCEPT ![e].calls = Bump(ents[e].calls)]
                     /\ pc' = [pc EXCEPT ![p] = "retry"]
                     /\ UNCHANGED loc
           ELSE /\ loc' = [loc EXCEPT ![p].val = v]
                /\ pc' = [pc EXCEPT ![p] = "hit"]
                /\ UNCHANGED ents
    /\ UNCHANGED <<heap, mptr, lock, m2, slowHit, cal, succ, published, returned, ops>>
    /\ UNCHANGED phiVars

\* val1, err1 := f(); on success entry.val.Store(val1)
RetryDone(p) ==
    /\ pc[p] = "retry"
    /\ \E r \in BuilderResults :
          LET e == loc[p].ent
          IN  IF r.err
              THEN /\ ents' = [ents EXCEPT ![e].failed = TRUE]
                   /\ loc' = [loc EXCEPT ![p].val = Zero, ![p].err = TRUE]
                   /\ pc' = [pc EXCEPT ![p] = "ret"]
                   /\ UNCHANGED succ
              ELSE /\ ents' = [ents EXCEPT ![e].val = r.val]
                   /\ loc' = [loc EXCEPT ![p].val = r.val]
                   /\ pc' = [pc EXCEPT ![p] = "hit"]
                   /\ succ' = Built(loc[p].key, r)
    /\ UNCHANGED <<heap, mptr, lock, m2, slowHit, cal, published, returned, ops>>
    /\ UNCHANGED phiVars

\* history: ops.hits is NilV until a calibrate called by SetByUintptr wins the
\* flag, and from then on the number of slowHit increments since the last
\* such win, counted up to slowHitThreshold + 1
Since(n) ==
    IF n = NilV \/ n > slowHitThreshold THEN n ELSE n + 1

Won(p) ==
    IF loc[p].op = "set" THEN [ops EXCEPT !.hits = 0] ELSE ops

\* atomic.AddUint32(&m.slowHit, 1) > slowHitThreshold
AddSlowHit(p) ==
    /\ pc[p] = "hit"
    /\ slowHit < slowHitThreshold + MaxOver
    /\ slowHit' = slowHit + 1
    /\ pc' = [pc EXCEPT ![p] =
                 IF slowHit + 1 > slowHitThreshold THEN "cas" ELSE "ret"]
    /\ ops' = [ops EXCEPT !.hits = Since(ops.hits)]
    /\ UNCHANGED <<heap, mptr, lock, m2, ents, loc, cal, succ, published, returned>>
    /\ UNCHANGED phiVars

(***************************************************************************)
(* calibrate(wait).                                                        *)
(***************************************************************************)
\* a caller invokes m.calibrate(true)
CallCalibrate(p) ==
    /\ pc[p] = "idle"
    /\ MayStart
    /\ p = Tester
    /\ ops.cal < MaxSync
    /\ ops' = [ops EXCEPT !.cal = ops.cal + 1]
    /\ loc' = [loc EXCEPT ![p] =
                  [IdleLoc EXCEPT !.op = "cal", !.wait = TRUE, !.pre = returned]]
    /\ pc' = [pc EXCEPT ![p] = "cas"]
    /\ UNCHANGED <<heap, mptr, lock, m2, ents, slowHit, cal, succ, published, returned>>
    /\ UNCHANGED phiVars

\* a plain store of the flag, whatever it holds
CompareAndSwapBlind(p) ==
    /\ pc[p] = "cas"
    /\ lock' = 1
    /\ pc' = [pc EXCEPT ![p] = "spawn"]
    /\ ops' = Won(p)
    /\ UNCHANGED <<heap, mptr, m2, ents, slowHit, loc, cal, succ, published, returned>>
    /\ UNCHANGED phiVars

\* a calibrate that resets slowHit before it tries the flag
CompareAndSwapReset(p) ==
    /\ pc[p] = "cas"
    /\ slowHit' = 0
    /\ IF lock = 0
       THEN /\ lock' = 1
            /\ pc' = [pc EXCEPT ![p] = "spawn"]
            /\ ops' = Won(p)
       ELSE /\ pc' = [pc EXCEPT ![p] = "ret"]
            /\ UNCHANGED <<lock, ops>>
    /\ UNCHANGED <<heap, mptr, m2, ents, loc, cal, succ, published, returned>>
    /\ UNCHANGED phiVars

\* if !atomic.CompareAndSwapUint32(&m.lock, 0, 1) { return }
CompareAndSwap(p) ==
    /\ pc[p] = "cas"
    /\ IF lock = 0
       THEN /\ lock' = 1
            /\ pc' = [pc EXCEPT ![p] = "spawn"]
            /\ ops' = Won(p)
       ELSE /\ pc' = [pc EXCEPT ![p] = "ret"]
            /\ UNCHANGED <<lock, ops>>
    /\ UNCHANGED <<heap, mptr, m2, ents, slowHit, loc, cal, succ, published, returned>>
    /\ UNCHANGED phiVars

\* atomic.StoreUint32(&m.slowHit, 0); go func() {...}()
Spawn(p) ==
    /\ pc[p] = "spawn"
    /\ cal[p].pc = "none"
    /\ slowHit' = 0
    /\ cal' = [cal EXCEPT ![p] = [IdleCal EXCEPT !.pc = "load"]]
    /\ pc' = [pc EXCEPT ![p] = IF loc[p].wait THEN "wait" ELSE "ret"]
    /\ UNCHANGED <<heap, mptr, lock, m2, ents, loc, succ, published, returned, ops>>
    /\ UNCHANGED phiVars

\* if wait { <-done }
WaitDone(p) ==
    /\ pc[p] = "wait"
    /\ cal[p].pc = "none"
    /\ pc' = [pc EXCEPT ![p] = "ret"]
    /\ UNCHANGED <<heap, mptr, lock, m2, ents, slowHit, loc, cal, succ, published, returned, ops>>
    /\ UNCHANGED phiVars

\* the caller's function returns
Return(p) ==
    /\ pc[p] = "ret"
    /\ returned' = IF loc[p].op = "set" /\ ~loc[p].err
                   THEN returned \cup {<<loc[p].key, loc[p].val>>}
                   ELSE returned
    /\ loc' = [loc EXCEPT ![p] = IdleLoc]
    /\ ents' = Collect(ents, m2, loc')
    /\ pc' = [pc EXCEPT ![p] = "idle"]
    /\ UNCHANGED <<heap, mptr, lock, m2, slowHit, cal, succ, published, ops>>
    /\ UNCHANGED phiVars

(***************************************************************************)
(* GetByUintptr(key): atomic.LoadPointer(&m.m), then Get on that PhiMap.   *)
(***************************************************************************)
GetLoad(p, k) ==
    /\ pc[p] = "idle"
    /\ MayStart
    /\ p = Tester
    /\ ops.get < MaxGets
    /\ ops' = [ops EXCEPT !.get = ops.get + 1]
    /\ loc' = [loc EXCEPT ![p] =
                  [IdleLoc EXCEPT !.op = "get", !.key = k, !.snap = mptr]]
    /\ pc' = [pc EXCEPT ![p] = "get"]
    /\ UNCHANGED <<heap, mptr, lock, m2, ents, slowHit, cal, succ, published, returned>>
    /\ UNCHANGED phiVars

\* a read that falls back to the slow store when the snapshot lacks the key
GetReadThrough(p) ==
    /\ pc[p] = "get"
    /\ LET k == loc[p].key
       IN  loc' = [loc EXCEPT ![p].val =
                      IF ~Has(heap[loc[p].snap], k) /\ HitKey(k)
                      THEN ents[m2[k]].val
                      ELSE Get(heap[loc[p].snap], k)]
    /\ pc' = [pc EXCEPT ![p] = "ret"]
    /\ UNCHANGED <<heap, mptr, lock, m2, ents, slowHit, cal, succ, published, returned, ops>>
    /\ UNCHANGED phiVars

GetRead(p) ==
    /\ pc[p] = "get"
    /\ loc' = [loc EXCEPT ![p].val = Get(heap[loc[p].snap], loc[p].key)]
    /\ pc' = [pc EXCEPT ![p] = "ret"]
    /\ UNCHANGED <<heap, mptr, lock, m2, ents, slowHit, cal, succ, published, returned, ops>>
    /\ UNCHANGED phiVars

(***************************************************************************)
(* The goroutine of calibrate.                                             *)
(***************************************************************************)
\* imap := atomic.LoadPointer(&m.m); m.m2.Range begins.  Range visits every
\* key that stays in m2 for the whole call (must) and may or may not visit
\* a key stored during the call.
CalLoad(p) ==
    /\ cal[p].pc = "load"
    /\ cal' = [cal EXCEPT ![p].pc = "range", ![p].imap = mptr,
                           ![p].must = DOMAIN m2]
    /\ UNCHANGED <<heap, mptr, lock, m2, ents, slowHit, pc, loc, succ, published, returned, ops>>
    /\ UNCHANGED phiVars

\* if newMap == nil { newMap = imap.Copy() }
WorkingCopyInPlace(hp, imap, newMap) == [heap |-> hp, ref |-> imap]

\* a calibration that copies imap anew for every key
WorkingCopyFresh(hp, imap, newMap) ==
    [heap |-> Append(hp, Copy(hp[imap])), ref |-> Len(hp) + 1]

WorkingCopy(hp, imap, newMap) ==
    IF newMap = NoRef
    THEN [heap |-> Append(hp, Copy(hp[imap])), ref |-> Len(hp) + 1]
    ELSE [heap |-> hp, ref |-> newMap]

\* a Range callback that takes no key for promoted already
imapHasNever(hp, imap, k) == FALSE

\* if imap.Has(key.(uint64)): the key is in the snapshot the calibration loaded
imapHas(hp, imap, k) == Has(hp[imap], k)

\* a Range callback that marks every key it visits for deletion
CalVisitDropAll(p, k) ==
    /\ cal[p].pc = "range"
    /\ k \in (DOMAIN m2) \ cal[p].visited
    /\ LET g == cal[p]
           v == ents[m2[k]].val
       IN  IF imapHas(heap, g.imap, k) \/ v = NilV
           THEN /\ cal' = [cal EXCEPT ![p].visited = g.visited \cup {k},
                                      ![p].delKeys = Append(g.delKeys, k)]
                /\ UNCHANGED heap
           ELSE LET w == WorkingCopy(heap, g.imap, g.newMap)
                IN  /\ heap' = [w.heap EXCEPT ![w.ref] = Set(w.heap[w.ref], k, v)]
                    /\ cal' = [cal EXCEPT ![p].visited = g.visited \cup {k},
                                          ![p].newMap = w.ref,
                                          ![p].delKeys = Append(g.delKeys, k),
                                          ![p].seen = g.seen \cup {<<k, v>>}]
    /\ UNCHANGED <<mptr, lock, m2, ents, slowHit, pc, loc, succ, published, returned, ops>>
    /\ UNCHANGED phiVars

\* the Range callback on key k
CalVisit(p, k) ==
    /\ cal[p].pc = "range"
    /\ k \in (DOMAIN m2) \ cal[p].visited
    /\ LET g == cal[p]
           v == ents[m2[k]].val
       IN  IF imapHas(heap, g.imap, k)
           THEN /\ cal' = [cal EXCEPT ![p].visited = g.visited \cup {k},
                                      ![p].delKeys = Append(g.delKeys, k)]
                /\ UNCHANGED heap
           ELSE IF v # NilV
           THEN LET w == WorkingCopy(heap, g.imap, g.newMap)
                IN  /\ heap' = [w.heap EXCEPT ![w.ref] = Set(w.heap[w.ref], k, v)]
                    /\ cal' = [cal EXCEPT ![p].visited = g.visited \cup {k},
                                          ![p].newMap = w.ref,
                                          ![p].delKeys = Append(g.delKeys, k),
                                          ![p].seen = g.seen \cup {<<k, v>>}]
           ELSE /\ cal' = [cal EXCEPT ![p].visited = g.visited \cup {k}]
                /\ UNCHANGED heap
    /\ UNCHANGED <<mptr, lock, m2, ents, slowHit, pc, loc, succ, published, returned, ops>>
    /\ UNCHANGED phiVars

\* Range returns
CalRangeEnd(p) ==
    /\ cal[p].pc = "range"
    /\ (cal[p].must \cap DOMAIN m2) \subseteq cal[p].visited
    /\ cal' = [cal EXCEPT ![p].pc = "store"]
    /\ UNCHANGED <<heap, mptr, lock, m2, ents, slowHit, pc, loc, succ, published, returned, ops>>
    /\ UNCHANGED phiVars

\* a calibration that goes on to the deletes without storing the new table
CalStoreSkip(p) ==
    /\ cal[p].pc = "store"
    /\ cal' = [cal EXCEPT ![p].pc = "delete"]
    /\ UNCHANGED <<heap, mptr, published, lock, m2, ents, slowHit, pc, loc, succ, returned, ops>>
    /\ UNCHANGED phiVars

\* if newMap != nil { atomic.StorePointer(&m.m, newMap) }
CalStore(p) ==
    /\ cal[p].pc = "store"
    /\ IF cal[p].newMap # NoRef
       THEN /\ mptr' = cal[p].newMap
            /\ published' = published \cup {cal[p].newMap}
       ELSE UNCHANGED <<mptr, published>>
    /\ cal' = [cal EXCEPT ![p].pc = "delete"]
    /\ UNCHANGED <<heap, lock, m2, ents, slowHit, pc, loc, succ, returned, ops>>
    /\ UNCHANGED phiVars

\* for _, k := range delKeys { m.m2.Delete(k) }, one key
CalDelete(p) ==
    /\ cal[p].pc = "delete"
    /\ cal[p].delKeys # <<>>
    /\ LET k == Head(cal[p].delKeys)
       IN  m2' = [j \in (DOMAIN m2) \ {k} |-> m2[j]]
    /\ ents' = Collect(ents, m2', loc)
    /\ cal' = [cal EXCEPT ![p].delKeys = Tail(cal[p].delKeys)]
    /\ loc' = [q \in Procs |->
                  IF loc[q].op = "cal"
                  THEN [loc[q] EXCEPT !.gone = @ \cup {Head(cal[p].delKeys)}]
                  ELSE loc[q]]
    /\ UNCHANGED <<heap, mptr, lock, slowHit, pc, succ, published, returned, ops>>
    /\ UNCHANGED phiVars

\* a goroutine that closes done and leaves the flag set
CalUnlockKeep(p) ==
    /\ cal[p].pc = "delete"
    /\ cal[p].delKeys = <<>>
    /\ cal' = [cal EXCEPT ![p] = IdleCal]
    /\ UNCHANGED <<heap, mptr, lock, m2, ents, slowHit, pc, loc, succ, published, returned, ops>>
    /\ UNCHANGED phiVars

\* atomic.StoreUint32(&m.lock, 0); close(done)
CalUnlock(p) ==
    /\ cal[p].pc = "delete"
    /\ cal[p].delKeys = <<>>
    /\ lock' = 0
    /\ cal' = [cal EXCEPT ![p] = IdleCal]
    /\ UNCHANGED <<heap, mptr, m2, ents, slowHit, pc, loc, succ, published, returned, ops>>
    /\ UNCHANGED phiVars

TMNext ==
    \/ \E p \in Procs, k \in TKeys : LoadOrStore(p, k)
    \/ \E p \in Procs : OnceDo(p)
    \/ \E p \in Procs : BuildDone(p)
    \/ \E p \in Procs : LoadVal(p)
    \/ \E p \in Procs : RetryDone(p)
    \/ \E p \in Procs : AddSlowHit(p)
    \/ \E p \in Procs : CallCalibrate(p)
    \/ \E p \in Procs : CompareAndSwap(p)
    \/ \E p \in Procs : Spawn(p)
    \/ \E p \in Procs : WaitDone(p)
    \/ \E p \in Procs : Return(p)
    \/ \E p \in Procs, k \in TKeys : GetLoad(p, k)
    \/ \E p \in Procs : GetRead(p)
    \/ \E p \in Procs : CalLoad(p)
    \/ \E p \in Procs, k \in TKeys : CalVisit(p, k)
    \/ \E p \in Procs : CalRangeEnd(p)
    \/ \E p \in Procs : CalStore(p)
    \/ \E p \in Procs : CalDelete(p)
    \/ \E p \in Procs : CalUnlock(p)

SpecTM == TMInit /\ [][TMNext]_vars

(***************************************************************************)
(* C3: when SetByUintptr calls on one key share a dirtyEntry and no        *)
(* builder invocation for that entry fails, the builder is invoked exactly *)
(* once for the entry, and every caller returns, with a nil error, the     *)
(* value that invocation stored.                                           *)
(***************************************************************************)
C3_SingleFlight ==
    /\ \A e \in DOMAIN ents : ~ents[e].failed => ents[e].calls <= 1
    /\ \A p \in Procs :
          (pc[p] = "ret" /\ loc[p].op = "set" /\ ~ents[loc[p].ent].failed)
              => /\ ents[loc[p].ent].calls = 1
                 /\ ~loc[p].err
                 /\ loc[p].val \in Vals
                 /\ loc[p].val = ents[loc[p].ent].val

\* two overlapping calls on one entry are both about to return: one ran the
\* builder, the other did not, and they hold the same value
C3_Witness ==
    /\ pc[1] = "ret" /\ pc[2] = "ret"
    /\ loc[1].op = "set" /\ loc[2].op = "set"
    /\ loc[1].ent = loc[2].ent
    /\ loc[1].called # loc[2].called
    /\ ~ents[loc[1].ent].failed
    /\ ents[loc[1].ent].calls = 1
    /\ loc[1].val = loc[2].val
    /\ loc[1].val \in Vals

(***************************************************************************)
(* C4: at the step where calibrate(true) returns, every <<key, value>>     *)
(* that a SetByUintptr call had returned before calibrate(true) was called *)
(* is what the fast snapshot holds for that key, and the key is out of the *)
(* slow store (it is absent, or it was deleted during the call).           *)
(***************************************************************************)
C4_SyncCalibrateFlushes ==
    [][\A p \in Procs :
          (loc[p].op = "cal" /\ pc[p] # "ret" /\ pc'[p] = "ret")
              => \A kv \in loc[p].pre :
                    /\ Get(heap'[mptr'], kv[1]) = kv[2]
                    /\ kv[1] \notin DOMAIN m2' \/ kv[1] \in loc'[p].gone
      ]_vars

(***************************************************************************)
(* C5: a PhiMap whose reference was stored in TypeMap.m is the same in     *)
(* every later state (slots, size, mask and threshold), so a reader that   *)
(* loaded the reference before a swap reads the pre-swap contents.         *)
(***************************************************************************)
C5_PublishedImmutable ==
    [][\A r \in published : heap'[r] = heap[r]]_vars

\* a GetByUintptr has loaded the snapshot, a calibration has swapped in a
\* new one that holds the key, and the reader's snapshot still lacks it
C5_Witness ==
    /\ pc[Tester] = "get"
    /\ loc[Tester].snap # mptr
    /\ loc[Tester].snap \in published
    /\ Has(heap[mptr], loc[Tester].key)
    /\ ~Has(heap[loc[Tester].snap], loc[Tester].key)
    /\ Get(heap[loc[Tester].snap], loc[Tester].key) = Zero

(***************************************************************************)
(* C10: a SetByUintptr(k, f) call that begins after a builder for k has    *)
(* succeeded never invokes f, neither in once.Do nor as a retry, and       *)
(* returns the value of that first successful builder with a nil error.    *)
(***************************************************************************)
C10_BuiltOncePerKey ==
    \A p \in Procs :
        (loc[p].op = "set" /\ loc[p].late)
            => /\ pc[p] \notin {"build", "retry"}
               /\ pc[p] = "ret" =>
                     ~loc[p].err /\ loc[p].val = succ[loc[p].key]

(***************************************************************************)
(* SpecRetry: the SetByUintptr workload of SpecTM without the tester's     *)
(* calibrate(true) and GetByUintptr calls, and with further SetByUintptr   *)
(* calls, by any caller, on a key whose slow-store entry has run its       *)
(* once.Do and holds no value (its builder failed).                        *)
(***************************************************************************)
FailedKey(k) ==
    /\ k \in DOMAIN m2
    /\ ents[m2[k]].once = "done"
    /\ ents[m2[k]].val = NilV

\* x, _ := m.m2.LoadOrStore(uint64(key), &dirtyEntry{}) of such a call: the
\* entry is found
LoadOrStoreAgain(p, k) ==
    /\ pc[p] = "idle"
    /\ MayStart
    /\ FailedKey(k)
    /\ loc' = [loc EXCEPT ![p] =
                  [IdleLoc EXCEPT !.op = "set", !.key = k, !.ent = m2[k],
                                  !.late = (succ[k] # NilV)]]
    /\ pc' = [pc EXCEPT ![p] = "once"]
    /\ UNCHANGED <<heap, mptr, lock, m2, ents, slowHit, cal, succ, published, returned, ops>>
    /\ UNCHANGED phiVars

RetryNext ==
    \/ \E p \in Procs, k \in TKeys : LoadOrStore(p, k)
    \/ \E p \in Procs, k \in TKeys : LoadOrStoreAgain(p, k)
    \/ \E p \in Procs : OnceDo(p)
    \/ \E p \in Procs : BuildDone(p)
    \/ \E p \in Procs : LoadVal(p)
    \/ \E p \in Procs : RetryDone(p)
    \/ \E p \in Procs : AddSlowHit(p)
    \/ \E p \in Procs : CompareAndSwap(p)
    \/ \E p \in Procs : Spawn(p)
    \/ \E p \in Procs : Return(p)
    \/ \E p \in Procs : CalLoad(p)
    \/ \E p \in Procs, k \in TKeys : CalVisit(p, k)
    \/ \E p \in Procs : CalRangeEnd(p)
    \/ \E p \in Procs : CalStore(p)
    \/ \E p \in Procs : CalDelete(p)
    \/ \E p \in Procs : CalUnlock(p)

SpecRetry == TMInit /\ [][RetryNext]_vars

(***************************************************************************)
(* SpecZero: one PhiMap driven through Set and Delete of the hot keys and  *)
(* at most MaxZero calls Set(0, v) and Delete(0).                          *)
(***************************************************************************)
SetZero ==
    /\ nzero < MaxZero
    /\ \E v \in Vals : tbl' = Set(tbl, FREE_KEY, v)
    /\ nzero' = nzero + 1
    /\ lastOp' = "set0"
    /\ UNCHANGED <<nfill, shadow, cref, mix>>
    /\ UNCHANGED tmVars

DeleteZero ==
    /\ nzero < MaxZero
    /\ tbl' = Delete(tbl, FREE_KEY)
    /\ nzero' = nzero + 1
    /\ lastOp' = "delete0"
    /\ UNCHANGED <<nfill, shadow, cref, mix>>
    /\ UNCHANGED tmVars

ZeroNext == SetHot \/ DeleteHot \/ SetZero \/ DeleteZero

SpecZero == PhiInit /\ [][ZeroNext]_vars

(***************************************************************************)
(* SpecCopy: PhiMaps reached through references, heap[1] being the source. *)
(* The source is loaded by the bulk loader first, then driven through Set  *)
(* and Delete of CopyKeys; Copy is called on it once, and from then on the *)
(* source and the copy are both driven through Set and Delete of CopyKeys. *)
(***************************************************************************)
\* both keys have probe start 63 at capacity 64, as has bulk key 33
CopyKeys == {66, 268}

\* the TypeMap state SpecCopy leaves alone
CopyIdle ==
    /\ mptr = 0
    /\ lock = 0
    /\ m2 = <<>>
    /\ ents = <<>>
    /\ slowHit = 0
    /\ pc = <<>>
    /\ loc = <<>>
    /\ cal = <<>>
    /\ succ = <<>>
    /\ published = {}
    /\ returned = {}
    /\ ops = <<>>

copyFrame == <<tbl, shadow, nzero, mix, mptr, lock, m2, ents, slowHit, pc, loc, cal,
               succ, published, returned, ops>>

CopyInit ==
    /\ heap = <<NewPhiMap>>
    /\ cref = NoRef
    /\ nfill = 0
    /\ lastOp = "init"
    /\ tbl = NewPhiMap
    /\ shadow = [k \in Keys |-> NilV]
    /\ nzero = 0
    /\ mix = <<>>
    /\ CopyIdle

\* the tables a call can be made on
Tables == IF cref = NoRef THEN {1} ELSE {1, cref}

CopyFill ==
    /\ cref = NoRef
    /\ lastOp \in {"init", "fill"}
    /\ nfill < MaxFill
    /\ heap' = [heap EXCEPT ![1] = Set(@, FillKey(nfill + 1), FillKey(nfill + 1))]
    /\ nfill' = nfill + 1
    /\ lastOp' = "fill"
    /\ UNCHANGED cref
    /\ UNCHANGED copyFrame

CopySet ==
    \E r \in Tables, k \in CopyKeys, v \in Vals :
        /\ heap' = [heap EXCEPT ![r] = Set(@, k, v)]
        /\ lastOp' = IF r = 1 THEN "set-src" ELSE "set-copy"
        /\ UNCHANGED <<cref, nfill>>
        /\ UNCHANGED copyFrame

CopyDelete ==
    \E r \in Tables, k \in CopyKeys :
        /\ heap' = [heap EXCEPT ![r] = Delete(@, k)]
        /\ lastOp' = IF r = 1 THEN "delete-src" ELSE "delete-copy"
        /\ UNCHANGED <<cref, nfill>>
        /\ UNCHANGED copyFrame

\* a Copy that hands out the source itself
CopySame(hp, r) == [heap |-> hp, ref |-> r]

\* newMap := &PhiMap[T]{...}; ...; return newMap
CopyNew(hp, r) == [heap |-> Append(hp, Copy(hp[r])), ref |-> Len(hp) + 1]

CopyCall ==
    /\ cref = NoRef
    /\ LET w == CopyNew(heap, 1)
       IN  heap' = w.heap /\ cref' = w.ref
    /\ lastOp' = "copy"
    /\ UNCHANGED nfill
    /\ UNCHANGED copyFrame

CopyNext == CopyFill \/ CopySet \/ CopyDelete \/ CopyCall

SpecCopy == CopyInit /\ [][CopyNext]_vars

\* the key-to-value mapping of a table
MapOf(m) == {<<k, Get(m, k)>> : k \in StoredKeys(m)}

(***************************************************************************)
(* C11: as long as no builder invocation for key k has succeeded, every    *)
(* SetByUintptr(k, .) that returns does so with the zero value and a       *)
(* non-nil error, no PhiMap of the TypeMap holds k, and GetByUintptr(k)    *)
(* returns the zero value, whether or not a calibration has run.           *)
(***************************************************************************)
C11_ErrorNotCached ==
    \A k \in TKeys :
        succ[k] = NilV =>
            /\ \A p \in Procs :
                  (pc[p] = "ret" /\ loc[p].key = k /\ loc[p].op \in {"set", "get"})
                      => /\ loc[p].val = Zero
                         /\ loc[p].op = "set" => loc[p].err
            /\ \A r \in DOMAIN heap :
                  ~Has(heap[r], k) /\ Get(heap[r], k) = Zero
            /\ \A kv \in returned : kv[1] # k

\* caller 1 is about to return the error of its failed builder for 66 while
\* the calibration started by caller 2 has visited 66 and skipped it
C11_Witness ==
    /\ pc[1] = "ret"
    /\ loc[1].op = "set"
    /\ loc[1].key = 66
    /\ loc[1].err
    /\ loc[1].val = Zero
    /\ succ[66] = NilV
    /\ cal[Tester].pc = "range"
    /\ 66 \in cal[Tester].visited
    /\ cal[Tester].newMap = NoRef
    /\ cal[Tester].delKeys = <<>>

(***************************************************************************)
(* C12: a Set(0, v) or Delete(0) call leaves Size() and every slot, key    *)
(* and value, as they were.                                                *)
(***************************************************************************)
C12_ZeroKeyRejected ==
    [][(lastOp' \in {"set0", "delete0"} /\ nzero' = nzero + 1)
          => /\ Size(tbl') = Size(tbl)
             /\ tbl'.data = tbl.data
      ]_vars

(***************************************************************************)
(* C13: the steps of GetByUintptr change neither the slow store, nor       *)
(* slowHit, nor the calibration flag, nor the fast reference, nor any      *)
(* PhiMap; the call loads the published reference and returns what Get on  *)
(* that PhiMap gives, so a key the snapshot lacks is reported as the zero  *)
(* value even if the slow store holds a value for it.                      *)
(***************************************************************************)
C13_GetIsPure ==
    [][\A p \in Procs :
          (loc'[p].op = "get" /\ pc'[p] # pc[p] /\ pc'[p] \in {"get", "ret"})
              => /\ UNCHANGED <<m2, ents, slowHit, lock, mptr, heap, cal>>
                 /\ pc'[p] = "get" => loc'[p].snap = mptr
                 /\ pc'[p] = "ret" =>
                       /\ loc'[p].val = Get(heap[loc[p].snap], loc[p].key)
                       /\ ~Has(heap[loc[p].snap], loc[p].key)
                             => loc'[p].val = Zero
      ]_vars

\* GetByUintptr is about to return zero for a key whose slow-store entry
\* holds a value and that no calibration has promoted
C13_Witness ==
    /\ pc[Tester] = "ret"
    /\ loc[Tester].op = "get"
    /\ loc[Tester].val = Zero
    /\ HitKey(loc[Tester].key)
    /\ ~Has(heap[mptr], loc[Tester].key)
    /\ loc[Tester].snap = mptr

(***************************************************************************)
(* C14: the table Copy returns has the key-to-value mapping and the Size() *)
(* of the source, and the capacity of the source, doubled when the         *)
(* source's size is at or above its threshold.  After the call a Set or    *)
(* Delete on the copy leaves the source as it was, and a Set or Delete on  *)
(* the source leaves the copy as it was.                                   *)
(***************************************************************************)
C14_CopyIndependent ==
    [][/\ lastOp' = "copy" =>
             LET s == heap[1]
                 c == heap'[cref']
             IN  /\ MapOf(c) = MapOf(s)
                 /\ \A k \in Probed : Get(c, k) = Get(s, k) /\ Has(c, k) = Has(s, k)
                 /\ Size(c) = Size(s)
                 /\ ArrLen(c.data) = IF s.size >= s.threshold
                                     THEN 2 * ArrLen(s.data)
                                     ELSE ArrLen(s.data)
                 /\ heap'[1] = s
       /\ lastOp' \in {"set-copy", "delete-copy"} => heap'[1] = heap[1]
       /\ (lastOp' \in {"set-src", "delete-src"} /\ cref # NoRef)
             => heap'[cref] = heap[cref]
      ]_vars

\* the copy was made of a source at its threshold, so with twice the
\* capacity, and a Delete on the copy has removed 66, which the source keeps
C14_Witness ==
    /\ cref # NoRef
    /\ lastOp = "delete-copy"
    /\ ArrLen(heap[1].data) = 64
    /\ Size(heap[1]) = heap[1].threshold
    /\ ArrLen(heap[cref].data) = 128
    /\ Has(heap[1], 66)
    /\ ~Has(heap[cref], 66)
    /\ Size(heap[cref]) = Size(heap[1]) - 1

(***************************************************************************)
(* C15: on every table reached by Set and Delete of non-zero keys, Keys()  *)
(* lists each present key exactly once and no other key, and Items() lists *)
(* exactly one entry (k, Get(k)) for each present key k and nothing else.  *)
(***************************************************************************)
C15_KeysItemsExact ==
    LET ks == PhiKeys(tbl)
        it == Items(tbl)
    IN  /\ Len(ks) = Cardinality(Present)
        /\ {ks[i] : i \in 1..Len(ks)} = Present
        /\ Len(it) = Cardinality(Present)
        /\ {<<it[i].K, it[i].V>> : i \in 1..Len(it)}
              = {<<k, Get(tbl, k)>> : k \in Present}
        /\ \A i \in 1..Len(it) : it[i].V = shadow[it[i].K]

\* a table that has grown to 128 slots, holds a key in slot 0 behind the
\* wrap-around, and has just had a key deleted: Keys() and Items() list its
\* Size() entries
C15_Witness ==
    /\ lastOp = "delete"
    /\ ArrLen(tbl.data) = 128
    /\ tbl.data[0].K # FREE_KEY
    /\ Size(tbl) > 38
    /\ Len(PhiKeys(tbl)) = Size(tbl)
    /\ Len(Items(tbl)) = Size(tbl)
    /\ Items(tbl)[1].K = tbl.data[0].K

(***************************************************************************)
(* C16: at most one caller is between its successful compare-and-swap of   *)
(* lock and the reset of lock by the goroutine it spawned, and lock is 1   *)
(* all that time: no two calibration bodies load the snapshot, range over  *)
(* the slow store, publish or delete at the same instant.                  *)
(***************************************************************************)
C16_OneCalibration ==
    LET inside == {p \in Procs : pc[p] = "spawn" \/ cal[p].pc # "none"}
    IN  /\ Cardinality(inside) <= 1
        /\ inside # {} => lock = 1

\* the goroutine spawned by caller 1 is ranging over the slow store while
\* caller 2 is at the compare-and-swap of its own calibrate call
C16_Witness ==
    /\ cal[1].pc = "range"
    /\ pc[Tester] = "cas"
    /\ loc[Tester].op = "cal"
    /\ cal[Tester].pc = "none"
    /\ lock = 1

(***************************************************************************)
(* C17: a step that removes a key from the slow store finds the key in the *)
(* published fast snapshot; and in every state a key for which a builder   *)
(* has stored a successful value is in the slow store or in the published  *)
(* fast snapshot.                                                          *)
(***************************************************************************)
C17_PromotedBeforeRemoved ==
    [][/\ \A k \in (DOMAIN m2) \ (DOMAIN m2') :
             Has(heap[mptr], k) /\ Has(heap'[mptr'], k)
       /\ \A k \in TKeys :
             succ'[k] # NilV => k \in DOMAIN m2' \/ Has(heap'[mptr'], k)
      ]_vars

\* the calibration has published a table holding both keys, has deleted 66
\* from the slow store and is about to delete 268
C17_Witness ==
    /\ cal[Tester].pc = "delete"
    /\ mptr = cal[Tester].newMap
    /\ succ[66] # NilV
    /\ 66 \notin DOMAIN m2
    /\ Has(heap[mptr], 66)
    /\ 268 \in DOMAIN m2
    /\ cal[Tester].delKeys = <<268>>
    /\ Has(heap[mptr], 268)

(***************************************************************************)
(* C18: no two callers are inside a builder invocation (the one of once.Do *)
(* or a retry) for the same slow-store entry at the same time while the    *)
(* entry is in the slow store, also after a builder for it has failed.     *)
(***************************************************************************)
C18_OneBuilderAtATime ==
    \A p, q \in Procs :
        ~ /\ p # q
          /\ pc[p] \in {"build", "retry"}
          /\ pc[q] \in {"build", "retry"}
          /\ loc[p].ent = loc[q].ent
          /\ loc[p].key \in DOMAIN m2
          /\ m2[loc[p].key] = loc[p].ent

(***************************************************************************)
(* C19: the compare-and-swap step of a calibrate call that finds lock = 1  *)
(* takes the caller to its return and changes neither the fast reference,  *)
(* nor the slow store, nor slowHit, nor lock, nor any PhiMap, and starts   *)
(* no goroutine; the return that follows starts none either.               *)
(***************************************************************************)
C19_HeldFlagNoOp ==
    [][\A p \in Procs :
          /\ (pc[p] = "cas" /\ lock = 1 /\ pc'[p] # "cas")
                => /\ pc'[p] = "ret"
                   /\ UNCHANGED <<mptr, m2, ents, slowHit, lock, heap, cal, published>>
          /\ (pc[p] = "ret" /\ pc'[p] = "idle")
                => UNCHANGED <<mptr, m2, slowHit, lock, heap, cal, published>>
      ]_vars

\* calibrate(true) of caller 2 is about to return through the failed
\* compare-and-swap: the goroutine of caller 1 holds the flag and has not
\* started its work, and the slow store and the snapshot are as before
C19_Witness ==
    /\ pc[Tester] = "ret"
    /\ loc[Tester].op = "cal"
    /\ loc[Tester].pre # {}
    /\ loc[Tester].gone = {}
    /\ cal[Tester].pc = "none"
    /\ cal[1].pc = "load"
    /\ lock = 1
    /\ mptr = 1
    /\ m2 # EmptyFn

C21_FastPathStable ==
    [][/\ \A k \in TKeys :
             Has(heap[mptr], k)
                 => /\ Has(heap'[mptr'], k)
                    /\ Get(heap'[mptr'], k) = Get(heap[mptr], k)
       /\ \A p \in Procs :
             (loc'[p].op = "get" /\ pc'[p] = "ret" /\ loc'[p].val # Zero)
                 => Get(heap'[mptr'], loc'[p].key) = loc'[p].val
      ]_vars

\* a GetByUintptr is about to return a present value read from a snapshot
\* that a later calibration has replaced, and the new snapshot holds the
\* same value for the key
C21_Witness ==
    /\ pc[Tester] = "ret"
    /\ loc[Tester].op = "get"
    /\ loc[Tester].val \in Vals
    /\ loc[Tester].snap # mptr
    /\ loc[Tester].snap \in published
    /\ Get(heap[mptr], loc[Tester].key) = loc[Tester].val

(***************************************************************************)
(* C22: every <<key, value>> that a SetByUintptr call has returned with a  *)
(* nil error is, in every later state in which the fast snapshot holds the *)
(* key, what the fast snapshot holds for it.                               *)
(***************************************************************************)
C22_ReturnedIsFastValue ==
    \A kv \in returned :
        Has(heap[mptr], kv[1]) => Get(heap[mptr], kv[1]) = kv[2]

(***************************************************************************)
(* SpecFair: SpecTM under fair scheduling of the calibration: the caller   *)
(* that won the flag goes on to start the goroutine, and the goroutine     *)
(* keeps taking steps until it ends.  CalSteps are the steps of calibrate  *)
(* after the compare-and-swap other than the Range callback; the fairness  *)
(* of the Range callback is weak fairness of CalVisit with its enabling    *)
(* condition written out (Unvisited), since a callback step is a step that *)
(* adds a key to visited.                                                  *)
(***************************************************************************)
CalSteps ==
    \E p \in Procs :
        \/ Spawn(p)
        \/ CalLoad(p)
        \/ CalRangeEnd(p)
        \/ CalStore(p)
        \/ CalDelete(p)
        \/ CalUnlock(p)

Unvisited ==
    \E p \in Procs : cal[p].pc = "range" /\ (DOMAIN m2) \ cal[p].visited # {}

VisitFair ==
    <>[]Unvisited => []<><<\E p \in Procs : cal'[p].visited # cal[p].visited>>_vars

CalFair == WF_vars(CalSteps) /\ VisitFair

SpecFair == TMInit /\ [][TMNext]_vars /\ CalFair

(***************************************************************************)
(* C23: under fair scheduling of the calibration, whenever TypeMap.lock is *)
(* 1 it is 0 again later; and at the step where a calibrate(true) that     *)
(* acquired the flag returns, its goroutine has ended and the flag is 0 or *)
(* is held by a calibration of another caller.                             *)
(***************************************************************************)
C23_FlagReleased ==
    /\ (lock = 1) ~> (lock = 0)
    /\ [][\A p \in Procs :
             (pc[p] = "wait" /\ pc'[p] = "ret")
                 => /\ cal[p].pc = "none"
                    /\ \/ lock = 0
                       \/ \E q \in Procs \ {p} :
                             pc[q] = "spawn" \/ cal[q].pc # "none"
         ]_vars

\* a calibrate(true) that acquired the flag and promoted a key is waiting
\* on done, its goroutine has ended and the flag is 0 again
C23_Witness ==
    /\ pc[Tester] = "wait"
    /\ loc[Tester].op = "cal"
    /\ cal[Tester].pc = "none"
    /\ loc[Tester].gone # {}
    /\ mptr # 1
    /\ lock = 0

(***************************************************************************)
(* C24: no step of a calibration goroutine touches a slow-store entry that *)
(* holds no value and whose key the snapshot the calibration loaded lacks: *)
(* after the step the key is still in m2, bound to the same dirtyEntry,    *)
(* and the entry is unchanged.  This covers entries that hold only an      *)
(* error and entries whose builder is still running.                       *)
(***************************************************************************)
C24_ValuelessEntriesStay ==
    [][\A p \in Procs :
          (cal[p].pc \in {"range", "store", "delete"} /\ cal'[p] # cal[p])
              => \A k \in DOMAIN m2 :
                    (ents[m2[k]].val = NilV /\ ~Has(heap[cal[p].imap], k))
                        => /\ k \in DOMAIN m2'
                           /\ m2'[k] = m2[k]
                           /\ ents'[m2[k]] = ents[m2[k]]
      ]_vars

\* a calibration has promoted one key and finished its deletes; the other
\* key, whose builder failed, was visited and is still in the slow store
C24_Witness ==
    \E p \in Procs, k \in TKeys :
        /\ cal[p].pc = "delete"
        /\ cal[p].delKeys = <<>>
        /\ cal[p].newMap = mptr
        /\ k \in cal[p].visited
        /\ k \in DOMAIN m2
        /\ ents[m2[k]].once = "done"
        /\ ents[m2[k]].err
        /\ ents[m2[k]].val = NilV
        /\ ~Has(heap[mptr], k)
        /\ \E j \in TKeys \ {k} : Has(heap[mptr], j) /\ j \notin DOMAIN m2

(***************************************************************************)
(* C25: SetByUintptr adds exactly one to slowHit and goes on to calibrate  *)
(* only when the count after the addition exceeds slowHitThreshold; the    *)
(* calibrate that won the flag stores 0 in slowHit before its goroutine    *)
(* starts; and when a calibrate called by SetByUintptr wins the flag, more *)
(* than slowHitThreshold increments of slowHit have happened since the     *)
(* previous win by a calibrate called by SetByUintptr.                     *)
(***************************************************************************)
C25_HitsBetweenCalibrations ==
    [][\A p \in Procs :
          /\ (pc[p] = "hit" /\ pc'[p] # "hit")
                => /\ slowHit' = slowHit + 1
                   /\ pc'[p] = "cas" => slowHit' > slowHitThreshold
          /\ (pc[p] = "spawn" /\ pc'[p] # "spawn")
                => slowHit' = 0 /\ cal[p].pc = "none"
          /\ (pc[p] = "cas" /\ pc'[p] = "spawn" /\ loc[p].op = "set")
                => ops.hits = NilV \/ ops.hits > slowHitThreshold
      ]_vars

C27_TableShape ==
    \A r \in Tables :
        LET capacity == ArrLen(heap[r].data)
        IN  /\ \E e \in 1..16 : capacity = 2^e
            /\ heap[r].mask = capacity - 1
            /\ heap[r].threshold = calcThreshold(capacity)

(***************************************************************************)
(* C28: after every NewPhiMap, Set, Delete and Copy on non-zero keys, on   *)
(* the source and on its copy, size <= threshold and size < capacity, size *)
(* is the number of occupied slots, and the table has an empty slot.       *)
(***************************************************************************)
C28_SizeWithinThreshold ==
    \A r \in Tables :
        /\ Size(heap[r]) <= heap[r].threshold
        /\ Size(heap[r]) < ArrLen(heap[r].data)
        /\ Size(heap[r]) = LiveSlots(heap[r])
        /\ \E i \in DOMAIN heap[r].data : heap[r].data[i].K = FREE_KEY

\* the source is at its threshold, and so is the copy taken from it, which
\* has twice the capacity
C28_Witness ==
    /\ cref # NoRef
    /\ Size(heap[1]) = heap[1].threshold
    /\ ArrLen(heap[1].data) = 64
    /\ Size(heap[cref]) = heap[cref].threshold
    /\ ArrLen(heap[cref].data) = 128

(***************************************************************************)
(* C29: in every table reached by Set and Delete on non-zero keys, for     *)
(* each occupied slot p holding key k, every slot on the cyclic path from  *)
(* k's probe start (phiMix(k) & mask) up to but excluding p is occupied,   *)
(* and no key occupies two slots.  It holds after every removal, those     *)
(* whose shiftKeys scan wraps past the end of the array included.          *)
(***************************************************************************)
ProbeChain(m) ==
    LET capacity == ArrLen(m.data)
    IN  /\ \A p \in DOMAIN m.data :
              LET k == m.data[p].K
                  start == BitAnd(phiMix(k), m.mask)
              IN  k # FREE_KEY
                      => \A d \in 0..(((p - start + capacity) % capacity) - 1) :
                            m.data[(start + d) % capacity].K # FREE_KEY
        /\ Cardinality(StoredKeys(m)) = LiveSlots(m)

RECURSIVE ProbeSteps(_, _, _, _)
ProbeSteps(m, key, ptr, n) ==
    LET p == BitAnd(ptr, m.mask)
        k == m.data[p].K
    IN  IF n > ArrLen(m.data) THEN n
        ELSE IF k = key \/ k = FREE_KEY THEN n
        ELSE ProbeSteps(m, key, p + 1, n + 1)

Terminates(m, key) == ProbeSteps(m, key, phiMix(key), 1) <= ArrLen(m.data)

PackSet ==
    /\ nfill < MaxPack
    /\ Terminates(tbl, FillKey(nfill + 1))
    /\ tbl' = Set(tbl, FillKey(nfill + 1), FillKey(nfill + 1))
    /\ nfill' = nfill + 1
    /\ lastOp' = "pack"
    /\ UNCHANGED <<shadow, nzero, cref, mix>>
    /\ UNCHANGED tmVars

PackDeleteZero ==
    /\ nzero < MaxNeg
    /\ Terminates(tbl, FREE_KEY)
    /\ tbl' = Delete(tbl, FREE_KEY)
    /\ nzero' = nzero + 1
    /\ lastOp' = "delete0"
    /\ UNCHANGED <<nfill, shadow, cref, mix>>
    /\ UNCHANGED tmVars

PackNext == PackSet \/ PackDeleteZero

SpecPack == PhiInit /\ [][PackNext]_vars

(***************************************************************************)
(* C30: on every reachable table the probe loop of Get, Has, Set and       *)
(* Delete ends for every key, present or absent, and the table has a free  *)
(* slot, which is what ends the scans of shiftKeys and the insertion loop  *)
(* of rehash.                                                              *)
(***************************************************************************)
C30_ProbeLoopsTerminate ==
    /\ \A k \in {FREE_KEY} \cup ColdKeys \cup {FillKey(n) : n \in 1..(MaxPack + 1)} :
          Terminates(tbl, k)
    /\ \E i \in DOMAIN tbl.data : tbl.data[i].K = FREE_KEY

(***************************************************************************)
(* interfaceMap (src/interfacemap.go): the probe start of an int64 key.    *)
(* A 64-bit word is the sequence of its 8 bytes, lowest first, so that the *)
(* product with INT_PHI, its wrap-around at 64 bits and the bits a shift   *)
(* brings in at the top are computed and not assumed.  int64 and uint64    *)
(* words of the same bits are the same sequence: uint64(key) and           *)
(* uint64(h ^ (h >> 16)) keep the bits.                                    *)
(***************************************************************************)
\* the bytes of the word whose 16-bit quarters are limbs, lowest first
WordOf(limbs) ==
    [i \in 1..8 |->
        LET l == limbs[(i + 1) \div 2]
        IN  IF i % 2 = 1 THEN l % 256 ELSE l \div 256]

\* INT_PHI = 0x9E3779B9 as an untyped constant: the 64-bit word 0x000000009E3779B9
IntPhi == WordOf(<<PHI_LO, PHI_HI, 0, 0>>)

\* 0x9E3779B9 as a 32-bit signed constant widened to 64 bits
IntPhiSignExtended == WordOf(<<PHI_LO, PHI_HI, W16 - 1, W16 - 1>>)

\* the sum of the byte products that fall on byte i of x * c
RECURSIVE Column(_, _, _, _)
Column(x, c, i, k) ==
    IF k > i THEN 0 ELSE x[i - k + 1] * c[k] + Column(x, c, i, k + 1)

\* x * c modulo 2^64 (Go's multiplication wraps around, signed or unsigned,
\* and gives the same bits in both), byte by byte from byte i on
RECURSIVE MulFrom(_, _, _, _)
MulFrom(x, c, i, carry) ==
    IF i > 8 THEN <<>>
    ELSE LET t == Column(x, c, i, 1) + carry
         IN  <<t % 256>> \o MulFrom(x, c, i + 1, t \div 256)

Mul64(x, c) == MulFrom(x, c, 1, 0)

\* h >> 16 on uint64: zeros come in at the top
LogicalShift16(h) == <<h[3], h[4], h[5], h[6], h[7], h[8], 0, 0>>

\* h >> 16 on int64: copies of the sign bit come in at the top
ArithmeticShift16(h) ==
    LET fill == IF h[8] >= 128 THEN 255 ELSE 0
    IN  <<h[3], h[4], h[5], h[6], h[7], h[8], fill, fill>>

Xor64(a, b) == [i \in 1..8 |-> BitXor(a[i], b[i])]

And64(a, b) == [i \in 1..8 |-> BitAnd(a[i], b[i])]

\* mask = capacity - 1 for capacity = 2^bits
MaskOf(bits) ==
    [i \in 1..8 |->
        LET b == bits - 8 * (i - 1)
        IN  IF b >= 8 THEN 255 ELSE IF b <= 0 THEN 0 ELSE 2^b - 1]

\* variant: INT_PHI taken as a negative 32-bit constant
imPhiMixSignExtended(x) ==
    LET h == Mul64(x, IntPhiSignExtended)
    IN  Xor64(h, ArithmeticShift16(h))

\* func phiMix(x int64) uint64 { h := x * INT_PHI; return uint64(h ^ (h >> 16)) }
imPhiMix(x) ==
    LET h == Mul64(x, IntPhi)
    IN  Xor64(h, ArithmeticShift16(h))

\* Get and Has: h := uint64(key) * INT_PHI; ptr := h ^ (h >> 16)
imInlineMix(x) ==
    LET h == Mul64(x, IntPhi)
    IN  Xor64(h, LogicalShift16(h))

(***************************************************************************)
(* SpecMix: a key and a capacity are chosen; Get (or Has) and Set (or      *)
(* Delete, rehash, shiftKeys) each compute the probe start for them, in    *)
(* any order.  The keys have the 16-bit quarters 0, 1, 0x8000 and 0xFFFF   *)
(* in every combination: small keys, negative keys, -1, the least int64.   *)
(***************************************************************************)
KeyLimbs == {0, 1, W16 \div 2, W16 - 1}

MixKeys == {WordOf(<<a, b, c, d>>) : a \in KeyLimbs, b \in KeyLimbs, c \in KeyLimbs, d \in KeyLimbs}

MixInit ==
    /\ mix \in {[key |-> x, bits |-> e, get |-> <<>>, set |-> <<>>] :
                   x \in MixKeys, e \in 1..MaxCapBits}
    /\ tbl = NewPhiMap
    /\ nfill = 0
    /\ shadow = [k \in Keys |-> NilV]
    /\ lastOp = "init"
    /\ nzero = 0
    /\ cref = NoRef
    /\ TMIdle

\* Get, Has: the inlined mix, then ptr &= m.mask
MixGet ==
    /\ mix.get = <<>>
    /\ mix' = [mix EXCEPT !.get = And64(imInlineMix(mix.key), MaskOf(mix.bits))]
    /\ UNCHANGED <<tbl, nfill, shadow, lastOp, nzero, cref>>
    /\ UNCHANGED tmVars

\* Set, Delete, rehash: ptr := phiMix(key), then ptr &= m.mask
MixSet ==
    /\ mix.set = <<>>
    /\ mix' = [mix EXCEPT !.set = And64(imPhiMix(mix.key), MaskOf(mix.bits))]
    /\ UNCHANGED <<tbl, nfill, shadow, lastOp, nzero, cref>>
    /\ UNCHANGED tmVars

MixNext == MixGet \/ MixSet

SpecMix == MixInit /\ [][MixNext]_vars

(***************************************************************************)
(* C31: for every int64 key and every capacity interfaceMap can reach, the *)
(* probe start Get and Has compute (unsigned product, logical shift) is    *)
(* the probe start Set, Delete, rehash and shiftKeys compute through       *)
(* phiMix (signed product, arithmetic shift), once masked with mask.       *)
(***************************************************************************)
C31_SameProbeStart ==
    (mix.get # <<>> /\ mix.set # <<>>) => mix.get = mix.set

\* both starts were computed for a negative key whose product with INT_PHI
\* has the top bit set, at a capacity of 2^40 or more: the two mixes differ
\* before masking and the starts are the same
C31_Witness ==
    /\ mix.get # <<>>
    /\ mix.set # <<>>
    /\ mix.key[8] >= 128
    /\ Mul64(mix.key, IntPhi)[8] >= 128
    /\ mix.bits >= 40
    /\ imInlineMix(mix.key) # imPhiMix(mix.key)
    /\ mix.get = mix.set
    /\ mix.get[5] # 0

====
